---- MODULE Spec2Model ----
(***************************************************************************)
(* A model of triqler_runner.py: the run_triqler driver (format            *)
(* conversion, condition mapping, the quantification engine, the spectrum  *)
(* file relocation) and the add_gene_names annotation stage.               *)
(*                                                                         *)
(* Text is modelled as sequences of character codes where the code looks   *)
(* inside strings (strip, split, lower, sorted, startswith).               *)
(***************************************************************************)
EXTENDS Integers, Sequences, FiniteSets, TLC

VARIABLES
    input_format,           \* --input_format
    file_list_file,         \* --file_list_file ("None" when the option is absent)
    write_spectrum_quants,  \* --write_spectrum_quants
    decoy_pattern,          \* --decoy_pattern, a sequence of characters
    uniprot_installed,      \* whether `import uniprotparser` succeeds
    canon,                  \* what is at triqler_input_file when it is read
    pc,                     \* position of the run
    spawned,                \* the subprocesses run so far, in order
    conv_returncode,        \* result.returncode of the converter, NoRc before
    returncode,             \* result.returncode of the engine, NoRc before
    outcome,                \* how the run ended
    exit_status,            \* exit status of the process, NoRc while running
    ran,                    \* the stages that have been entered
    map_file,               \* condition_mapping.tsv
    stage_errors,           \* the stages in which an exception was raised
    spectrum,               \* the <base>.spectrum_quants.tsv artifact
    protein_files,          \* number of files glob matched (files are 1..n)
    fs,                     \* content of each matched file
    orig,                   \* content of each matched file before annotation
    tmp,                    \* the '<file>.tmp' of each matched file
    accessions,             \* the accession set
    mapping,                \* the gene name map
    idx,                    \* loop position in protein_files
    fstep,                  \* step inside the rewrite of file idx
    read_failed,            \* files whose read (first loop) raised
    rewrite_failed,         \* files whose rewrite (second loop) raised
    replaced                \* files on which os.replace was executed

vars == << input_format, file_list_file, write_spectrum_quants, decoy_pattern,
           uniprot_installed, canon, pc, spawned, conv_returncode, returncode,
           outcome, exit_status, ran, map_file, stage_errors, spectrum,
           protein_files, fs, orig, tmp, accessions, mapping, idx, fstep,
           read_failed, rewrite_failed, replaced >>

cliVars == << input_format, file_list_file, write_spectrum_quants,
              decoy_pattern, uniprot_installed, canon >>
annVars == << protein_files, fs, orig, tmp, accessions, mapping, idx, fstep,
              read_failed, rewrite_failed, replaced >>

----------------------------------------------------------------------------
(* Bounds *)

\* length of the data part of the canonical table, in characters
MaxTextLen == 7
\* largest return code a subprocess is given
MaxRc == 3
\* number of data rows over all matched files
MaxRows == 1

NoRc == -1

----------------------------------------------------------------------------
(* Characters and strings *)

TAB == 9
NL == 10
SPACE == 32

IsSpace(c) == c \in {TAB, NL, 11, 12, 13, SPACE}

\* str.lower() on one character
LowerChar(c) == IF c >= 65 /\ c <= 90 THEN c + 32 ELSE c

Lower(s) == [i \in 1..Len(s) |-> LowerChar(s[i])]

RECURSIVE LStrip(_)
LStrip(s) == IF s # << >> /\ IsSpace(Head(s)) THEN LStrip(Tail(s)) ELSE s

RECURSIVE RStrip(_)
RStrip(s) ==
    IF s # << >> /\ IsSpace(s[Len(s)]) THEN RStrip(SubSeq(s, 1, Len(s) - 1)) ELSE s

\* str.strip()
Strip(s) == RStrip(LStrip(s))

\* str.split(sep): the pieces between the separators, at least one piece
RECURSIVE SplitOn(_, _)
SplitOn(s, sep) ==
    IF \E i \in 1..Len(s) : s[i] = sep
    THEN LET i == CHOOSE k \in 1..Len(s) : s[k] = sep /\ \A j \in 1..(k-1) : s[j] # sep
         IN  << SubSeq(s, 1, i - 1) >> \o SplitOn(SubSeq(s, i + 1, Len(s)), sep)
    ELSE << s >>

\* the lines `for line in f` yields: the pieces between newlines, without a
\* last empty piece
FileLines(text) ==
    LET pieces == SplitOn(text, NL)
    IN  IF pieces[Len(pieces)] = << >> THEN SubSeq(pieces, 1, Len(pieces) - 1) ELSE pieces

\* s < t in Python's ordering of str (code points, a proper prefix first)
RECURSIVE StrLess(_, _)
StrLess(s, t) ==
    IF t = << >> THEN FALSE
    ELSE IF s = << >> THEN TRUE
    ELSE IF Head(s) # Head(t) THEN Head(s) < Head(t)
    ELSE StrLess(Tail(s), Tail(t))

\* str.startswith
StartsWith(s, p) == Len(s) >= Len(p) /\ SubSeq(s, 1, Len(p)) = p

----------------------------------------------------------------------------
(* The canonical table and export_condition_mapping *)

s_condition == << 99, 111, 110, 100, 105, 116, 105, 111, 110 >>
s_Condition == << 67, 111, 110, 100, 105, 116, 105, 111, 110 >>
s_CONDITION == << 67, 79, 78, 68, 73, 84, 73, 79, 78 >>
s_run == << 114, 117, 110 >>
s_group == << 103, 114, 111, 117, 112 >>

\* the first line of the table, as readline() returns it
HeaderLines ==
    { s_run \o << TAB >> \o s_condition \o << NL >>,
      s_Condition \o << TAB >> \o s_run \o << NL >>,
      s_run \o << TAB >> \o s_group \o << TAB >> \o s_CONDITION \o << NL >>,
      s_run \o << TAB >> \o s_group \o << NL >>,
      << >> }

\* characters of the data part: tab, newline, 'B', 'a'
TextChars == { TAB, NL, 66, 97 }

Texts == UNION { [1..n -> TextChars] : n \in 0..MaxTextLen }

\* a few data parts, for the runs that go through every stage
SmallTexts ==
    { << >>,
      << 97, TAB, 66, NL, 97, TAB, 97 >>,
      << 66, NL, 97, TAB >> }

\* lines 64-71: index of the condition column, 0-based as in the source
CondIdx(header) ==
    IF \E i \in 1..Len(header) : Lower(header[i]) = s_condition
    THEN (CHOOSE i \in 1..Len(header) :
              /\ Lower(header[i]) = s_condition
              /\ \A j \in 1..(i-1) : Lower(header[j]) # s_condition) - 1
    ELSE 1

\* line 74
Parts(line) == SplitOn(Strip(line), TAB)

\* lines 73-76: the set of condition values of the data lines
Conditions(lines, cond_idx) ==
    { Parts(lines[k])[cond_idx + 1] :
        k \in { j \in 1..Len(lines) : Len(Parts(lines[j])) > cond_idx } }

\* sorted(reverse=True)
RECURSIVE SortedDescending(_)
SortedDescending(S) ==
    IF S = {} THEN << >>
    ELSE LET m == CHOOSE x \in S : \A y \in S \ {x} : StrLess(y, x)
         IN  << m >> \o SortedDescending(S \ {m})

\* sorted(list(conditions))
RECURSIVE Sorted(_)
Sorted(S) ==
    IF S = {} THEN << >>
    ELSE LET m == CHOOSE x \in S : \A y \in S \ {x} : StrLess(x, y)
         IN  << m >> \o Sorted(S \ {m})

\* enumerate(sorted_conditions, 1): the (idx, cond) pairs written
Enumerate(seq) == [i \in 1..Len(seq) |-> << i, seq[i] >>]

\* lines 64-84: the rows of condition_mapping.tsv for a readable table
ConditionMapping(table) ==
    LET header == SplitOn(Strip(table.header), TAB)
        cond_idx == CondIdx(header)
    IN  Enumerate(Sorted(Conditions(FileLines(table.body), cond_idx)))

NoMapFile == [written |-> FALSE, rows |-> << >>]

\* lines 59-92; every exception is caught and reported as a warning
export_condition_mapping ==
    /\ pc = "map"
    /\ \E write_ok \in BOOLEAN :
          IF canon.readable /\ write_ok
          THEN /\ map_file' = [written |-> TRUE, rows |-> ConditionMapping(canon)]
               /\ stage_errors' = stage_errors
          ELSE /\ map_file' = map_file
               /\ stage_errors' = stage_errors \cup {"map"}
    /\ ran' = ran \cup {"map"}
    /\ pc' = "engine"
    /\ UNCHANGED << cliVars, spawned, conv_returncode, returncode, outcome,
                    exit_status, spectrum, annVars >>

----------------------------------------------------------------------------
(* Protein result files *)

\* accessions, as sequences of characters
AccUniverse == { << "P" >>, << "Q", "d" >>, << "d", "P" >> }

DecoyPatterns == { << "d" >> }

\* the `protein` field split on ";": one accession or two
Cells == { << a >> : a \in AccUniverse } \cup (AccUniverse \X AccUniverse)

\* a data row by its `protein` field; the other columns are carried along
\* unchanged.  gene_name is a field of the rows of a rewritten file only.
\* A row shorter than the header has no `protein` field (DictReader gives
\* None): its protein is the empty sequence.
Row(cell) == [protein |-> cell, gene_name |-> << >>]
MalformedRow == Row(<< >>)
IsMalformed(row) == row.protein = << >>
Rows == { Row(c) : c \in Cells } \cup { MalformedRow }

\* reader.fieldnames: an empty file, no `protein` column, `protein` first or last
Fieldnames == { << >>, << "q" >>, << "protein", "q" >>, << "q", "protein" >> }

InSeq(x, seq) == \E i \in 1..Len(seq) : seq[i] = x

RowSeqs(k) == [1..k -> Rows]

ContentsWithRows(k) == { [fieldnames |-> h, rows |-> r] : h \in Fieldnames, r \in RowSeqs(k) }

\* the directories of n files with at most `budget` data rows in all
RECURSIVE Dirs(_, _)
Dirs(n, budget) ==
    IF n = 0 THEN { << >> }
    ELSE UNION { { << c >> \o d : c \in ContentsWithRows(k), d \in Dirs(n - 1, budget - k) } :
                 k \in 0..budget }

\* the files of the output directory that glob can match, in the order it
\* returns them: the engine's out_file and a result file it writes beside it
ProteinFileNames == << "proteins.tsv", "proteins.1vs2.tsv" >>

\* no file, the first file, or both, with at most MaxRows data rows in all
AllDirs == UNION { Dirs(n, MaxRows) : n \in 0..Len(ProteinFileNames) }

\* a few directories, for the runs that go through every stage
EngineOutputs ==
    { << >>,
      << [fieldnames |-> << "protein", "q" >>, rows |-> << Row(<< << "P" >>, << "d", "P" >> >>) >>] >>,
      << [fieldnames |-> << "q" >>, rows |-> << >>],
         [fieldnames |-> << "q", "protein" >>, rows |-> << MalformedRow >>] >>,
      << [fieldnames |-> << "protein", "q" >>, rows |-> << MalformedRow >>],
         [fieldnames |-> << "q", "protein" >>, rows |-> << Row(<< << "Q", "d" >> >>) >>] >> }

NoTmp == [exists |-> FALSE, fieldnames |-> << >>, rows |-> << >>]

----------------------------------------------------------------------------
(* run_triqler *)

Formats == { "triqler", "diann", "maxquant" }

\* "None": the option is absent; "": an empty path
FileLists == { "None", "", "samples.tsv" }

\* line 215 only
FileListMissingUnchecked(fmt, fl) == FALSE

\* lines 215-216: the format needs the run annotation file and it is not given
FileListMissing(fmt, fl) == fmt \in { "diann", "maxquant" } /\ fl \in { "None", "" }

\* click reports a UsageError and exits with this status
UsageErrorStatus == 2
\* status of a Python process that ends with an uncaught exception
UncaughtStatus == 1

\* sys.exit(1)
ExitStatusOne(rc) == 1

\* line 282: sys.exit(result.returncode)
ExitStatus(rc) == rc % 256

Converter(fmt) == IF fmt = "diann" THEN "triqler.convert.diann" ELSE "triqler.convert.maxquant"

\* lines 211-220: the checks before any conversion
Validate ==
    /\ pc = "start"
    /\ IF FileListMissing(input_format, file_list_file)
       THEN /\ outcome' = "UsageError"
            /\ exit_status' = UsageErrorStatus
            /\ pc' = "exited"
       ELSE /\ pc' = IF input_format \in { "diann", "maxquant" } THEN "convert" ELSE "map"
            /\ UNCHANGED << outcome, exit_status >>
    /\ UNCHANGED << cliVars, spawned, conv_returncode, returncode, ran, map_file,
                    stage_errors, spectrum, annVars >>

\* lines 222-229 with convert_diann_to_triqler / convert_maxquant_to_triqler
\* (lines 15-56): a non-zero return code raises RuntimeError, which nothing
\* catches
Convert ==
    /\ pc = "convert"
    /\ spawned' = Append(spawned, Converter(input_format))
    /\ \E rc \in 0..MaxRc :
          /\ conv_returncode' = rc
          /\ IF rc # 0
             THEN /\ outcome' = "RuntimeError"
                  /\ exit_status' = UncaughtStatus
                  /\ pc' = "exited"
             ELSE /\ pc' = "map"
                  /\ UNCHANGED << outcome, exit_status >>
    /\ UNCHANGED << cliVars, returncode, ran, map_file, stage_errors, spectrum, annVars >>

\* lines 234-282: the engine is run; a non-zero return code ends the process
\* with that code.  The engine leaves its result files in the output directory
\* and its spectrum file, or not, beside the input.
RunEngine ==
    /\ pc = "engine"
    /\ spawned' = Append(spawned, "triqler")
    /\ \E rc \in 0..MaxRc, dir \in EngineOutputs, sp \in { "absent", "cwd" } :
          /\ returncode' = rc
          /\ protein_files' = Len(dir)
          /\ fs' = dir
          /\ orig' = dir
          /\ tmp' = [i \in 1..Len(dir) |-> NoTmp]
          /\ spectrum' = sp
          /\ IF rc # 0
             THEN /\ outcome' = "SystemExit"
                  /\ exit_status' = ExitStatus(rc)
                  /\ pc' = "exited"
             ELSE /\ pc' = "relocate"
                  /\ UNCHANGED << outcome, exit_status >>
    /\ UNCHANGED << cliVars, conv_returncode, ran, map_file, stage_errors,
                    accessions, mapping, idx, fstep, read_failed, rewrite_failed,
                    replaced >>

\* lines 284-291
Relocate ==
    /\ pc = "relocate"
    /\ IF write_spectrum_quants
       THEN /\ ran' = ran \cup { "relocate" }
            /\ spectrum' = IF spectrum = "cwd" THEN "moved" ELSE spectrum
       ELSE UNCHANGED << ran, spectrum >>
    /\ pc' = "annotate"
    /\ UNCHANGED << cliVars, spawned, conv_returncode, returncode, outcome,
                    exit_status, map_file, stage_errors, annVars >>

\* line 296, after add_gene_names has returned
Complete ==
    /\ pc = "finish"
    /\ outcome' = "complete"
    /\ exit_status' = 0
    /\ pc' = "exited"
    /\ UNCHANGED << cliVars, spawned, conv_returncode, returncode, ran, map_file,
                    stage_errors, spectrum, annVars >>

----------------------------------------------------------------------------
(* add_gene_names *)

\* line 117 without the test
IsDecoyNever(acc, pattern) == FALSE

\* line 117: acc.startswith(decoy_pattern)
IsDecoy(acc, pattern) == StartsWith(acc, pattern)

\* position of the first row whose `protein` is None, or one past the last row
FirstMalformed(rows) ==
    IF \E k \in 1..Len(rows) : IsMalformed(rows[k])
    THEN CHOOSE k \in 1..Len(rows) :
             IsMalformed(rows[k]) /\ \A j \in 1..(k-1) : ~IsMalformed(rows[j])
    ELSE Len(rows) + 1

\* lines 114-118: the accessions added before the loop ends or raises
AccessionsOf(rows, pattern) ==
    UNION { { rows[k].protein[j] :
                j \in { m \in 1..Len(rows[k].protein) :
                          ~IsDecoy(rows[k].protein[m], pattern) } } :
            k \in 1..(FirstMalformed(rows) - 1) }

\* the "Gene Names" field of a returned row, split on " ": one name, two names,
\* an empty field, a field that begins with a space
GeneFields == { << "G1" >>, << "G2", "G1" >>, << "" >>, << "", "G1" >> }

\* no row is returned for the accession
Omitted == << >>

\* what the service returns for the submitted ids: for each, no row or a row
Responses(ids) == [ids -> GeneFields \cup { Omitted }]

\* lines 131-140: the map built from the returned rows
BuildMapping(resp) ==
    [acc \in { a \in DOMAIN resp : resp[a] # Omitted /\ resp[a] # << "" >> } |-> resp[acc][1]]

\* mapping.get(acc, "")
Get(m, acc) == IF acc \in DOMAIN m THEN m[acc] ELSE ""

\* line 167 joined without the filter of line 169
GeneNameUnfiltered(cell, m) == [k \in 1..Len(cell) |-> Get(m, cell[k])]

\* lines 166-169: the entries of the gene_name field
GeneName(cell, m) ==
    SelectSeq([k \in 1..Len(cell) |-> Get(m, cell[k])], LAMBDA g : g # "")

\* lines 158-160
NewFieldnames(fieldnames) ==
    LET prot_idx == CHOOSE i \in 1..Len(fieldnames) :
                        fieldnames[i] = "protein" /\ \A j \in 1..(i-1) : fieldnames[j] # "protein"
    IN  SubSeq(fieldnames, 1, prot_idx) \o << "gene_name" >>
          \o SubSeq(fieldnames, prot_idx + 1, Len(fieldnames))

\* lines 166-170: the row written to the temporary file
RewrittenRow(row, m) == [protein |-> row.protein, gene_name |-> GeneName(row.protein, m)]

ContentOf(t) == [fieldnames |-> t.fieldnames, rows |-> t.rows]

\* an except clause that puts the temporary file in place
OnRewriteExceptionReplace(original, t) == ContentOf(t)

\* lines 173-174: the except clause prints a warning; the original stays
OnRewriteException(original, t) == original

\* an except clause that leaves the loop
NextAfterFailureBreak(i, n) == n + 1

\* lines 119-120, 173-174: after the warning the loop goes on with the next file
NextAfterFailure(i, n) == i + 1

\* lines 97-105
add_gene_names ==
    /\ pc = "annotate"
    /\ ran' = ran \cup { "annotate" }
    /\ IF ~uniprot_installed
       THEN /\ stage_errors' = stage_errors \cup { "annotate" }
            /\ pc' = "finish"
       ELSE /\ stage_errors' = stage_errors
            /\ pc' = IF protein_files = 0 THEN "finish" ELSE "read"
    /\ idx' = 1
    /\ UNCHANGED << cliVars, spawned, conv_returncode, returncode, outcome,
                    exit_status, map_file, spectrum, protein_files, fs, orig, tmp,
                    accessions, mapping, fstep, read_failed, rewrite_failed, replaced >>

\* lines 108-120, one file: the accessions of its rows, or a warning
ReadFile ==
    /\ pc = "read"
    /\ idx <= protein_files
    /\ \E open_ok \in BOOLEAN :
          IF ~open_ok
          THEN /\ read_failed' = read_failed \cup { idx }
               /\ stage_errors' = stage_errors \cup { "annotate" }
               /\ idx' = NextAfterFailure(idx, protein_files)
               /\ UNCHANGED accessions
          ELSE IF ~InSeq("protein", fs[idx].fieldnames)
          THEN /\ idx' = idx + 1
               /\ UNCHANGED << accessions, read_failed, stage_errors >>
          ELSE /\ accessions' = accessions \cup AccessionsOf(fs[idx].rows, decoy_pattern)
               /\ IF FirstMalformed(fs[idx].rows) <= Len(fs[idx].rows)
                  THEN /\ read_failed' = read_failed \cup { idx }
                       /\ stage_errors' = stage_errors \cup { "annotate" }
                       /\ idx' = NextAfterFailure(idx, protein_files)
                  ELSE /\ idx' = idx + 1
                       /\ UNCHANGED << read_failed, stage_errors >>
    /\ UNCHANGED << cliVars, pc, spawned, conv_returncode, returncode, outcome,
                    exit_status, ran, map_file, spectrum, protein_files, fs, orig,
                    tmp, mapping, fstep, rewrite_failed, replaced >>

\* lines 122-123
ReadDone ==
    /\ pc = "read"
    /\ idx > protein_files
    /\ pc' = IF accessions = {} THEN "finish" ELSE "lookup"
    /\ UNCHANGED << cliVars, spawned, conv_returncode, returncode, outcome,
                    exit_status, ran, map_file, stage_errors, spectrum, annVars >>

\* lines 125-143: the client is constructed outside any try; an exception of
\* parse() is caught and ends the stage
Lookup ==
    /\ pc = "lookup"
    /\ \/ /\ outcome' = "Exception"
          /\ exit_status' = UncaughtStatus
          /\ stage_errors' = stage_errors \cup { "annotate" }
          /\ pc' = "exited"
          /\ UNCHANGED << mapping, idx, fstep, ran >>
       \/ /\ stage_errors' = stage_errors \cup { "annotate" }
          /\ pc' = "finish"
          /\ UNCHANGED << mapping, idx, fstep, ran, outcome, exit_status >>
       \/ \E resp \in Responses(accessions) :
             /\ mapping' = BuildMapping(resp)
             /\ idx' = 1
             /\ fstep' = "open"
             /\ ran' = ran \cup { "rewrite" }
             /\ pc' = "rewrite"
             /\ UNCHANGED << stage_errors, outcome, exit_status >>
    /\ UNCHANGED << cliVars, spawned, conv_returncode, returncode, map_file,
                    spectrum, protein_files, fs, orig, tmp, accessions,
                    read_failed, rewrite_failed, replaced >>

\* lines 148-150: both files are opened; the temporary file is created empty
RewriteOpen ==
    /\ pc = "rewrite"
    /\ idx <= protein_files
    /\ fstep = "open"
    /\ \E open_ok \in BOOLEAN :
          IF open_ok
          THEN /\ tmp' = [tmp EXCEPT ![idx] = [exists |-> TRUE, fieldnames |-> << >>, rows |-> << >>]]
               /\ fstep' = "header"
               /\ UNCHANGED << idx, rewrite_failed, stage_errors, fs >>
          ELSE /\ rewrite_failed' = rewrite_failed \cup { idx }
               /\ stage_errors' = stage_errors \cup { "annotate" }
               /\ fs' = [fs EXCEPT ![idx] = OnRewriteException(fs[idx], tmp[idx])]
               /\ idx' = NextAfterFailure(idx, protein_files)
               /\ UNCHANGED << tmp, fstep >>
    /\ UNCHANGED << cliVars, pc, spawned, conv_returncode, returncode, outcome,
                    exit_status, ran, map_file, spectrum, protein_files, orig,
                    accessions, mapping, read_failed, replaced >>

\* lines 152-163: a file without a `protein` column is left (continue);
\* otherwise the new header is written
RewriteHeader ==
    /\ pc = "rewrite"
    /\ idx <= protein_files
    /\ fstep = "header"
    /\ IF ~InSeq("protein", fs[idx].fieldnames)
       THEN /\ idx' = idx + 1
            /\ fstep' = "open"
            /\ UNCHANGED tmp
       ELSE /\ tmp' = [tmp EXCEPT ![idx].fieldnames = NewFieldnames(fs[idx].fieldnames)]
            /\ fstep' = "rows"
            /\ UNCHANGED idx
    /\ UNCHANGED << cliVars, pc, spawned, conv_returncode, returncode, outcome,
                    exit_status, ran, map_file, stage_errors, spectrum,
                    protein_files, fs, orig, accessions, mapping, read_failed,
                    rewrite_failed, replaced >>

\* lines 165-170, one row: the row is written with its gene_name, or
\* row["protein"].split raises and the except clause of lines 173-174 runs
RewriteRow ==
    /\ pc = "rewrite"
    /\ idx <= protein_files
    /\ fstep = "rows"
    /\ Len(tmp[idx].rows) < Len(fs[idx].rows)
    /\ LET row == fs[idx].rows[Len(tmp[idx].rows) + 1]
       IN  IF IsMalformed(row)
           THEN /\ rewrite_failed' = rewrite_failed \cup { idx }
                /\ stage_errors' = stage_errors \cup { "annotate" }
                /\ fs' = [fs EXCEPT ![idx] = OnRewriteException(fs[idx], tmp[idx])]
                /\ idx' = NextAfterFailure(idx, protein_files)
                /\ fstep' = "open"
                /\ UNCHANGED tmp
           ELSE /\ tmp' = [tmp EXCEPT ![idx].rows = Append(@, RewrittenRow(row, mapping))]
                /\ UNCHANGED << idx, fstep, rewrite_failed, stage_errors, fs >>
    /\ UNCHANGED << cliVars, pc, spawned, conv_returncode, returncode, outcome,
                    exit_status, ran, map_file, spectrum, protein_files, orig,
                    accessions, mapping, read_failed, replaced >>

\* line 172: after the last row both files are closed and os.replace puts the
\* temporary file in place of the original, or raises
RewriteReplace ==
    /\ pc = "rewrite"
    /\ idx <= protein_files
    /\ fstep = "rows"
    /\ Len(tmp[idx].rows) = Len(fs[idx].rows)
    /\ \E replace_ok \in BOOLEAN :
          IF replace_ok
          THEN /\ fs' = [fs EXCEPT ![idx] = ContentOf(tmp[idx])]
               /\ tmp' = [tmp EXCEPT ![idx] = NoTmp]
               /\ replaced' = replaced \cup { idx }
               /\ idx' = idx + 1
               /\ UNCHANGED << rewrite_failed, stage_errors >>
          ELSE /\ rewrite_failed' = rewrite_failed \cup { idx }
               /\ stage_errors' = stage_errors \cup { "annotate" }
               /\ fs' = [fs EXCEPT ![idx] = OnRewriteException(fs[idx], tmp[idx])]
               /\ idx' = NextAfterFailure(idx, protein_files)
               /\ UNCHANGED << tmp, replaced >>
    /\ fstep' = "open"
    /\ UNCHANGED << cliVars, pc, spawned, conv_returncode, returncode, outcome,
                    exit_status, ran, map_file, spectrum, protein_files, orig,
                    accessions, mapping, read_failed >>

\* line 176: the loop is over
RewriteDone ==
    /\ pc = "rewrite"
    /\ idx > protein_files
    /\ pc' = "finish"
    /\ UNCHANGED << cliVars, spawned, conv_returncode, returncode, outcome,
                    exit_status, ran, map_file, stage_errors, spectrum, annVars >>

----------------------------------------------------------------------------
(* Specifications *)

\* the readable tables, and a file that cannot be opened
Tables(texts) ==
    { [readable |-> TRUE, header |-> h, body |-> b] : h \in HeaderLines, b \in texts }
        \cup { [readable |-> FALSE, header |-> << >>, body |-> << >>] }

NoFiles ==
    /\ protein_files = 0
    /\ fs = << >>
    /\ orig = << >>
    /\ tmp = << >>

AnnotationNotBegun ==
    /\ accessions = {}
    /\ mapping = << >>
    /\ idx = 1
    /\ fstep = "open"
    /\ read_failed = {}
    /\ rewrite_failed = {}
    /\ replaced = {}

NotEnded ==
    /\ outcome = "running"
    /\ exit_status = NoRc

\* the program is started with any options
Init ==
    /\ input_format \in Formats
    /\ file_list_file \in FileLists
    /\ write_spectrum_quants \in BOOLEAN
    /\ decoy_pattern \in DecoyPatterns
    /\ uniprot_installed \in BOOLEAN
    /\ canon \in Tables(SmallTexts)
    /\ pc = "start"
    /\ spawned = << >>
    /\ conv_returncode = NoRc
    /\ returncode = NoRc
    /\ NotEnded
    /\ ran = {}
    /\ map_file = NoMapFile
    /\ stage_errors = {}
    /\ spectrum = "absent"
    /\ NoFiles
    /\ AnnotationNotBegun

Next ==
    \/ Validate
    \/ Convert
    \/ export_condition_mapping
    \/ RunEngine
    \/ Relocate
    \/ add_gene_names
    \/ ReadFile
    \/ ReadDone
    \/ Lookup
    \/ RewriteOpen
    \/ RewriteHeader
    \/ RewriteRow
    \/ RewriteReplace
    \/ RewriteDone
    \/ Complete

Spec == Init /\ [][Next]_vars

\* export_condition_mapping on any table: a run of the native format about to
\* enter the stage
InitCond ==
    /\ input_format = "triqler"
    /\ file_list_file = "None"
    /\ write_spectrum_quants = FALSE
    /\ decoy_pattern \in DecoyPatterns
    /\ uniprot_installed = TRUE
    /\ canon \in Tables(Texts)
    /\ pc = "map"
    /\ spawned = << >>
    /\ conv_returncode = NoRc
    /\ returncode = NoRc
    /\ NotEnded
    /\ ran = {}
    /\ map_file = NoMapFile
    /\ stage_errors = {}
    /\ spectrum = "absent"
    /\ NoFiles
    /\ AnnotationNotBegun

NextCond == export_condition_mapping

SpecCond == InitCond /\ [][NextCond]_vars

\* add_gene_names on any output directory: a run of the native format whose
\* engine has returned 0
InitAnn ==
    /\ input_format = "triqler"
    /\ file_list_file = "None"
    /\ write_spectrum_quants = FALSE
    /\ decoy_pattern \in DecoyPatterns
    /\ uniprot_installed \in BOOLEAN
    /\ canon = [readable |-> TRUE, header |-> << >>, body |-> << >>]
    /\ pc = "annotate"
    /\ spawned = << "triqler" >>
    /\ conv_returncode = NoRc
    /\ returncode = 0
    /\ NotEnded
    /\ ran = { "map" }
    /\ map_file = [written |-> TRUE, rows |-> << >>]
    /\ stage_errors = {}
    /\ spectrum = "absent"
    /\ \E dir \in AllDirs :
          /\ protein_files = Len(dir)
          /\ fs = dir
          /\ orig = dir
          /\ tmp = [i \in 1..Len(dir) |-> NoTmp]
    /\ AnnotationNotBegun

NextAnn ==
    \/ add_gene_names
    \/ ReadFile
    \/ ReadDone
    \/ Lookup
    \/ RewriteOpen
    \/ RewriteHeader
    \/ RewriteRow
    \/ RewriteReplace
    \/ RewriteDone

SpecAnn == InitAnn /\ [][NextAnn]_vars

----------------------------------------------------------------------------
(* Properties *)

Ended == pc = "exited"

\* C1: when the format is diann or maxquant and no run annotation file is
\* given, no subprocess is ever spawned, neither the condition mapping nor
\* the annotation stage is entered, and the run can only end in the
\* configuration error.
C1_MissingFileListFailsFast ==
    (input_format \in { "diann", "maxquant" } /\ file_list_file \in { "None", "" })
        => /\ spawned = << >>
           /\ ran = {}
           /\ ~map_file.written
           /\ pc \in { "start", "exited" }
           /\ Ended => (outcome = "UsageError" /\ exit_status = UsageErrorStatus)

C1_Witness ==
    /\ Ended
    /\ outcome = "UsageError"
    /\ input_format = "maxquant"
    /\ file_list_file = "None"

\* C2: once the engine has returned a non-zero code c the run has ended with
\* exit status c, and neither the relocation of the spectrum file nor the
\* annotation stage has run: no file of the output directory has changed.
C2_EngineCodePropagated ==
    (returncode # NoRc /\ returncode # 0)
        => /\ Ended
           /\ outcome = "SystemExit"
           /\ exit_status = returncode
           /\ "relocate" \notin ran
           /\ "annotate" \notin ran
           /\ spectrum # "moved"
           /\ fs = orig
           /\ \A i \in 1..protein_files : ~tmp[i].exists

C2_Witness ==
    /\ Ended
    /\ returncode = 2
    /\ exit_status = 2
    /\ write_spectrum_quants
    /\ spectrum = "cwd"
    /\ protein_files > 0

\* C3: once a converter has returned a non-zero code c the run has ended
\* with exit status c and the engine was not invoked.
C3_ConverterCodeMirrored ==
    (conv_returncode # NoRc /\ conv_returncode # 0)
        => /\ Ended
           /\ ~InSeq("triqler", spawned)
           /\ exit_status = conv_returncode

\* the condition values of the table, by the column the header names
C4_Values ==
    Conditions(FileLines(canon.body), CondIdx(SplitOn(Strip(canon.header), TAB)))

\* C4: the rows of the mapping file carry the ids 1..N, N the number of
\* distinct condition values; every value is the label of exactly one row;
\* the labels increase strictly in the ordering of strings.
C4_IdsDenseLabelsSorted ==
    map_file.written
        => LET rows == map_file.rows
               N == Cardinality(C4_Values)
           IN  /\ Len(rows) = N
               /\ \A i \in 1..N : rows[i][1] = i
               /\ { rows[i][2] : i \in 1..N } = C4_Values
               /\ \A i, j \in 1..N : rows[i][2] = rows[j][2] => i = j
               /\ \A i \in 1..(N - 1) : StrLess(rows[i][2], rows[i + 1][2])

\* three data lines give two labels: a value is repeated or a line is too short
C4_Witness ==
    /\ map_file.written
    /\ Len(map_file.rows) = 2
    /\ Len(FileLines(canon.body)) = 3
    /\ map_file.rows[1][2] = << 66 >>

AnnotationReturned == pc \in { "finish", "exited" } /\ "annotate" \in ran

\* C5: after add_gene_names has returned no temporary file exists.
C5_NoTmpRemains ==
    AnnotationReturned => \A i \in 1..protein_files : ~tmp[i].exists

\* the table is the whole rewrite of the original: the header with gene_name
\* after protein, and every row of the original with its protein field
C6_Complete(new, old) ==
    /\ InSeq("protein", old.fieldnames)
    /\ Len(new.fieldnames) = Len(old.fieldnames) + 1
    /\ \E p \in 1..Len(old.fieldnames) :
          /\ old.fieldnames[p] = "protein"
          /\ new.fieldnames[p + 1] = "gene_name"
          /\ \A q \in 1..Len(old.fieldnames) :
                new.fieldnames[IF q <= p THEN q ELSE q + 1] = old.fieldnames[q]
    /\ Len(new.rows) = Len(old.rows)
    /\ \A k \in 1..Len(old.rows) : new.rows[k].protein = old.rows[k].protein

\* C6: at every step of the stage each matched file is what it was before
\* the stage or the whole rewritten table; it is what it was as long as
\* os.replace has not been executed on it, which never happens for a file
\* without a protein column or for a file whose rewrite raised.
C6_AllOrNothing ==
    \A i \in 1..protein_files :
       /\ i \notin replaced => fs[i] = orig[i]
       /\ i \in replaced => C6_Complete(fs[i], orig[i])
       /\ ~InSeq("protein", orig[i].fieldnames) => i \notin replaced
       /\ i \in rewrite_failed => i \notin replaced

\* a rewrite has raised after a row was written, another file was replaced
C6_Witness ==
    /\ pc = "finish"
    /\ \E j \in rewrite_failed : tmp[j].exists /\ Len(tmp[j].rows) = 1
    /\ replaced # {}

\* the `;`-separated entries of a written gene_name field
GeneEntries(g) == IF g = << >> THEN << "" >> ELSE g

\* C7, as stated: in every rewritten row gene_name has as many entries as
\* protein, and entry k is the gene name of accession k.
C7_SameCardinality ==
    \A i \in replaced : \A k \in 1..Len(fs[i].rows) :
       LET row == fs[i].rows[k]
       IN  /\ Len(GeneEntries(row.gene_name)) = Len(row.protein)
           /\ \A n \in 1..Len(row.protein) :
                 GeneEntries(row.gene_name)[n] = Get(mapping, row.protein[n])

\* C7, amended: in every rewritten row gene_name has one entry for each
\* position of protein whose accession has a gene name, so never more
\* entries than protein, and as many only when every accession has one; then
\* entry k is the gene name of accession k.
C7_EntriesAreResolvedPositions ==
    \A i \in replaced : \A k \in 1..Len(fs[i].rows) :
       LET row == fs[i].rows[k]
           resolved == { n \in 1..Len(row.protein) : Get(mapping, row.protein[n]) # "" }
       IN  /\ Len(row.gene_name) = Cardinality(resolved)
           /\ Len(row.gene_name) <= Len(row.protein)
           /\ Len(row.gene_name) = Len(row.protein)
                 => \A n \in 1..Len(row.protein) :
                       row.gene_name[n] = Get(mapping, row.protein[n])

\* a rewritten row of two accessions with one gene name, that of the second
C7_Witness ==
    \E i \in replaced : \E k \in 1..Len(fs[i].rows) :
       /\ Len(fs[i].rows[k].protein) = 2
       /\ Len(fs[i].rows[k].gene_name) = 1
       /\ Get(mapping, fs[i].rows[k].protein[1]) = ""
       /\ ~IsDecoy(fs[i].rows[k].protein[1], decoy_pattern)

\* the gene names of the accessions of a cell that have one, in their order
RECURSIVE C8_Tokens(_, _)
C8_Tokens(cell, m) ==
    IF cell = << >> THEN << >>
    ELSE IF Head(cell) \in DOMAIN m /\ m[Head(cell)] # ""
         THEN << m[Head(cell)] >> \o C8_Tokens(Tail(cell), m)
         ELSE C8_Tokens(Tail(cell), m)

\* C8: no accession that begins with the decoy prefix is submitted or enters
\* the map; in every rewritten row the protein field is the original and
\* gene_name is, in the order of the accessions, the map's name of each
\* accession that has one.
C8_GeneNamesOfResolved ==
    /\ \A a \in accessions \cup DOMAIN mapping : ~StartsWith(a, decoy_pattern)
    /\ \A i \in replaced : \A k \in 1..Len(fs[i].rows) :
          /\ fs[i].rows[k].protein = orig[i].rows[k].protein
          /\ fs[i].rows[k].gene_name = C8_Tokens(orig[i].rows[k].protein, mapping)

\* a rewritten row with a decoy first and a named accession after it
C8_Witness ==
    \E i \in replaced : \E k \in 1..Len(fs[i].rows) :
       /\ Len(fs[i].rows[k].protein) = 2
       /\ StartsWith(fs[i].rows[k].protein[1], decoy_pattern)
       /\ fs[i].rows[k].gene_name = << "G2" >>

\* C9: a run in which the condition mapping or the annotation stage raised,
\* and no external tool failed, ends with the final confirmation.
C9_StageErrorsNeverAbort ==
    (Ended /\ stage_errors # {} /\ returncode = 0) => outcome = "complete"

====
